---- MODULE Spec2Model ----
(***************************************************************************)
(* Scheduling and review-scoring engine of the spaced-repetition tracker   *)
(* (src/classes.py, class SpacedRepetitionSystem) and the data file it is  *)
(* saved to (class DataManager).                                           *)
(*                                                                         *)
(* Representation of the program's values:                                 *)
(*  - an instant is a pair (day, tod): a calendar day number and a time of *)
(*    day in 0..TicksPerDay-1;                                             *)
(*  - an ISO string is <<day, t>>: date.isoformat() gives t = NoTime       *)
(*    ("YYYY-MM-DD"), datetime.isoformat() gives t = tod                   *)
(*    ("YYYY-MM-DDTHH:MM:SS.ffffff").  Python compares these strings       *)
(*    lexicographically, so a date-only string sorts before every datetime *)
(*    string of the same day;                                              *)
(*  - level is kept in tenths (level10): every increment review_score/5 is *)
(*    a multiple of 0.1;                                                   *)
(*  - difficulty is the numerator of a fraction whose denominator is       *)
(*    5^reviews (learning_rate = 0.2 = 1/5);                               *)
(*  - None is the empty sequence;                                          *)
(*  - a file is a record: exists tells whether the path exists, content    *)
(*    is <<document>> for a complete JSON document and <<>> for a file     *)
(*    that was opened for writing and not written in full.                 *)
(***************************************************************************)
EXTENDS Integers, Sequences, FiniteSets, TLC

\* ---------------------------------------------------------------- bounds
MaxDay == 3
TicksPerDay == 2
MaxTotalReviews == 2
MaxHomework == 1
MaxReviews == 10
MaxElapsed == 8
MaxDueDay == 1
MaxDueReviews == 1
\* Values of next_interval above IntervalSat are represented by it: the largest
\* cap of _apply_spaced_repetition_curve is below it, so the scheduled date is
\* the same, and the products stay within 32-bit integers.
IntervalSat == 64
\* days between two reviews of the history behind a saved data file
HistoryGap == 70
\* the streak sessions: last day, number of reviews, number of assignments
MaxStreakDay == 3
MaxStreakReviews == 3
MaxStreakHomework == 2
\* the sessions with a failing disk: last day, number of reviews
MaxDiskDay == 1
MaxDiskReviews == 2
\* the long-run sessions: a level of LevelSat tenths or more is represented
\* by LevelSat, where every pair of ratings gives an interval of IntervalSat;
\* a reviews count of ReviewsSat or more is represented by ReviewsSat, where
\* the last tier of _apply_spaced_repetition_curve has begun
LevelSat == 100
ReviewsSat == 8

\* ------------------------------------------------------ program constants
MAX_TOPICS_PER_DAY == 3

TopicNames == {"t1"}
StartTopics == {"t1", "t2", "t3", "t4"}
DueTopicNames == StartTopics \cup {"t5"}
\* the subject each of the topics added at start-up belongs to
SubjectOf(topic) == IF topic \in {"t4", "t5"} THEN "Grammar" ELSE "Literature"
SubjectNames == {"Literature", "Grammar"}
Ratings == 1..5
\* <<difficulty, confidence>> pairs the long-running specifications draw from:
\* the middle rating, the highest score and the lowest score
RatingPairs == {<<3, 3>>, <<1, 5>>, <<5, 1>>}
\* the pairs drawn with many topics: a first review rated <<3, 3>> is
\* scheduled days ahead, one rated <<5, 1>> gets a 0-day interval
DueRatingPairs == {<<3, 3>>, <<5, 1>>}
NoSubject == ""
\* the subject arguments drawn with many topics: no filter, and a subject
\* that holds some of the topics
DueFilters == {NoSubject, "Grammar"}
NoTime == -1
LastTick == TicksPerDay - 1
None == <<>>

\* out records the last call when it was review_topic on a stored topic (op,
\* topic, the two ratings entered, the days_since_last_review the call
\* computed and its early_review_bonus in sevenths), review_topic on an unknown name (op
\* "topic_not_found" and the name) or get_topics_to_review (op, subject, the
\* list returned and the number of topics logged as rescheduled for
\* tomorrow); it is NoOut after any other call
\* data_file is the data file on disk and io the outcome the file system
\* gives to the I/O calls of save_data
VARIABLES data, subjects, homework, now, out, data_file, io
vars == <<data, subjects, homework, now, out, data_file, io>>
NoOut ==
    [op |-> "", topic |-> "", subject |-> "", difficulty |-> 0, confidence |-> 0,
     days_since_last_review |-> 0, early_review_bonus7 |-> 0,
     ret |-> <<>>, rescheduled |-> 0]

\* ------------------------------------------------------------- dates
DateIso(day) == <<day, NoTime>>
DateTimeIso(day, tod) == <<day, tod>>
\* str <= str on ISO strings of equal-width fields
IsoLeq(a, b) == a[1] < b[1] \/ (a[1] = b[1] /\ a[2] <= b[2])
\* datetime.fromisoformat: a date-only string parses to midnight
FromIso(s) == s[1] * TicksPerDay + (IF s[2] = NoTime THEN 0 ELSE s[2])
NowTicks == now.day * TicksPerDay + now.tod
\* timedelta.days: floor of the difference in whole days
TimedeltaDays(ticks) == ticks \div TicksPerDay
Today == DateIso(now.day)
\* a "tomorrow" computed with the sign of the day reversed
Tomorrow_Backwards == DateIso(now.day - 1)
Tomorrow == DateIso(now.day + 1)
Yesterday == DateIso(now.day - 1)

Max(a, b) == IF a >= b THEN a ELSE b
Min(a, b) == IF a <= b THEN a ELSE b

RECURSIVE Pow(_, _)
Pow(b, n) == IF n = 0 THEN 1 ELSE b * Pow(b, n - 1)

\* ------------------------------------------------------------- store
\* DataManager._create_default_data
CreateDefaultData ==
    [topics |-> <<>>,
     total_reviews |-> 0,
     streak |-> [current |-> 0, longest |-> 0,
                 last_review |-> None, last_homework |-> None],
     total_homework_completed |-> 0]

\* the record add_topic stores for a new topic when called on the given day
NewTopicOn(day, subject) ==
    [level10 |-> 0,
     next_review |-> DateIso(day),
     difficulty |-> 3,
     reviews |-> 0,
     subject |-> subject,
     review_dates |-> <<>>]

\* the record add_topic stores for a new topic
NewTopic(subject) == NewTopicOn(now.day, subject)

\* ------------------------------------------------------- review scoring
\* review_score = ((6 - difficulty) + confidence) / 2, kept doubled
ReviewScore2(difficulty, confidence) == (6 - difficulty) + confidence

\* a level increment measured from the lowest score: the ratings (5, 1) add
\* nothing
LevelDelta10_FromLowest(difficulty, confidence) ==
    ReviewScore2(difficulty, confidence) - 2

\* level += review_score / 5, in tenths: review_score / 5 = score2 / 10
LevelDelta10(difficulty, confidence) == ReviewScore2(difficulty, confidence)

\* a factor that grows with lateness instead of shrinking
EarlyReviewFactor7_Late(days_since_last_review) ==
    Max(0, days_since_last_review - 7)

\* early_review_factor = max(0, 1 - days_since_last_review / 7), in sevenths
EarlyReviewFactor7(days_since_last_review) == Max(0, 7 - days_since_last_review)

\* floor(2^(k/10) * 10^4) for k = 0..9: the fractional part of the level
Pow2Tenth(k) ==
    <<10000, 10717, 11486, 12311, 13195, 14142, 15157, 16245, 17411, 18660>>[k + 1]

\* int(base_interval * difficulty_factor * confidence_factor *
\*     early_review_bonus) in exact arithmetic, with
\*   base_interval = 2^level, difficulty_factor = (6 - difficulty) / 3,
\*   confidence_factor = confidence / 3, early_review_bonus = 1 + factor
ExactInterval(level10, difficulty, confidence, days) ==
    LET e == level10 \div 10
        n == Pow2Tenth(level10 % 10) * (6 - difficulty) * confidence
                 * (7 + EarlyReviewFactor7(days))
        dd == 63 * 10000
        whole == n \div dd
    IN  IF whole >= IntervalSat THEN IntervalSat
        ELSE Min(IntervalSat, Pow(2, e) * whole + (Pow(2, e) * (n % dd)) \div dd)

\* TRUE when the exact product is an integer, the only place where binary64
\* rounding of the accumulated level can change the truncated result
IntervalIsExactInteger(level10, difficulty, confidence, days) ==
    /\ level10 % 10 = 0
    /\ (Pow(2, level10 \div 10) * (6 - difficulty) * confidence
           * (7 + EarlyReviewFactor7(days))) % 63 = 0

\* The values next_interval can take.  The level is a binary64 sum of
\* tenths; from the third addition on a sum whose exact value is an integer
\* may come out one ulp below it, and int() then truncates to one less.
NextIntervalOutcomes(level10, difficulty, confidence, days, reviews) ==
    LET x == ExactInterval(level10, difficulty, confidence, days)
    IN  IF /\ reviews >= 3
           /\ x < IntervalSat
           /\ IntervalIsExactInteger(level10, difficulty, confidence, days)
        THEN {x - 1, x}
        ELSE {x}

\* a curve whose tiers end one review early
ApplySpacedRepetitionCurve_EarlyTiers(interval, num_reviews) ==
    IF num_reviews < 3 THEN Min(interval, 7)
    ELSE IF num_reviews < 7 THEN Min(interval, 14)
    ELSE Min(interval, 60)

\* _apply_spaced_repetition_curve
ApplySpacedRepetitionCurve(interval, num_reviews) ==
    IF num_reviews <= 3 THEN Min(interval, 7)
    ELSE IF num_reviews <= 7 THEN Min(interval, 14)
    ELSE Min(interval, 60)

\* a smoothing that adds 0.2 * new without subtracting current
UpdateTopicDifficulty_NoPull(current_difficulty, new_difficulty, reviews) ==
    5 * current_difficulty + new_difficulty * Pow(5, reviews)

\* _update_topic_difficulty: current + 0.2 * (new - current).  current is a
\* numerator over 5^reviews, the result a numerator over 5^(reviews + 1).
UpdateTopicDifficulty(current_difficulty, new_difficulty, reviews) ==
    4 * current_difficulty + new_difficulty * Pow(5, reviews)

\* an update that takes longest from current before the increment
UpdateStreak_StaleLongest(streak, hw) ==
    LET bumped ==
            IF \/ streak.last_review = Yesterday
               \/ (hw /\ streak.last_homework = Yesterday)
            THEN [streak EXCEPT !.current = @ + 1,
                                !.longest = Max(streak.current, @)]
            ELSE IF /\ streak.last_review # Today
                    /\ (~hw \/ streak.last_homework # Today)
            THEN [streak EXCEPT !.current = 1]
            ELSE streak
    IN  IF hw THEN [bumped EXCEPT !.last_homework = Today]
        ELSE [bumped EXCEPT !.last_review = Today]

\* an update whose reset restarts longest together with current
UpdateStreak_ResetLongest(streak, hw) ==
    LET bumped ==
            IF \/ streak.last_review = Yesterday
               \/ (hw /\ streak.last_homework = Yesterday)
            THEN [streak EXCEPT !.current = @ + 1,
                                !.longest = Max(streak.current + 1, @)]
            ELSE IF /\ streak.last_review # Today
                    /\ (~hw \/ streak.last_homework # Today)
            THEN [streak EXCEPT !.current = 1, !.longest = 1]
            ELSE streak
    IN  IF hw THEN [bumped EXCEPT !.last_homework = Today]
        ELSE [bumped EXCEPT !.last_review = Today]

\* an update that records every event on the review track
UpdateStreak_OneTrack(streak, hw) ==
    LET bumped ==
            IF \/ streak.last_review = Yesterday
               \/ (hw /\ streak.last_homework = Yesterday)
            THEN [streak EXCEPT !.current = @ + 1,
                                !.longest = Max(streak.current + 1, @)]
            ELSE IF /\ streak.last_review # Today
                    /\ (~hw \/ streak.last_homework # Today)
            THEN [streak EXCEPT !.current = 1]
            ELSE streak
    IN  IF hw THEN [bumped EXCEPT !.last_review = Today]
        ELSE [bumped EXCEPT !.last_review = Today]

\* an update that also counts a second review of the same day
UpdateStreak_CountsSameDay(streak, hw) ==
    LET bumped ==
            IF \/ streak.last_review \in {Yesterday, Today}
               \/ (hw /\ streak.last_homework = Yesterday)
            THEN [streak EXCEPT !.current = @ + 1,
                                !.longest = Max(streak.current + 1, @)]
            ELSE IF /\ streak.last_review # Today
                    /\ (~hw \/ streak.last_homework # Today)
            THEN [streak EXCEPT !.current = 1]
            ELSE streak
    IN  IF hw THEN [bumped EXCEPT !.last_homework = Today]
        ELSE [bumped EXCEPT !.last_review = Today]

\* an update that extends the streak on the review track only
UpdateStreak_ReviewTrackOnly(streak, hw) ==
    LET bumped ==
            IF streak.last_review = Yesterday
            THEN [streak EXCEPT !.current = @ + 1,
                                !.longest = Max(streak.current + 1, @)]
            ELSE IF /\ streak.last_review # Today
                    /\ (~hw \/ streak.last_homework # Today)
            THEN [streak EXCEPT !.current = 1]
            ELSE streak
    IN  IF hw THEN [bumped EXCEPT !.last_homework = Today]
        ELSE [bumped EXCEPT !.last_review = Today]

\* update_streak
UpdateStreak(streak, hw) ==
    LET bumped ==
            IF \/ streak.last_review = Yesterday
               \/ (hw /\ streak.last_homework = Yesterday)
            THEN [streak EXCEPT !.current = @ + 1,
                                !.longest = Max(streak.current + 1, @)]
            ELSE IF /\ streak.last_review # Today
                    /\ (~hw \/ streak.last_homework # Today)
            THEN [streak EXCEPT !.current = 1]
            ELSE streak
    IN  IF hw THEN [bumped EXCEPT !.last_homework = Today]
        ELSE [bumped EXCEPT !.last_review = Today]

\* ------------------------------------------------------------ selection
\* a selection that ignores the subject argument
DueTopics_NoFilter(subject) ==
    {t \in DOMAIN data.topics : IsoLeq(data.topics[t].next_review, Today)}

\* the due_topics set comprehension of get_topics_to_review
DueTopics(subject) ==
    IF subject # NoSubject
    THEN {t \in (IF subject \in DOMAIN subjects THEN subjects[subject] ELSE {}) :
              IsoLeq(data.topics[t].next_review, Today)}
    ELSE {t \in DOMAIN data.topics : IsoLeq(data.topics[t].next_review, Today)}

\* the set listed in any order at all
SortedByNextReview_AnyOrder(due) ==
    {sq \in [1..Cardinality(due) -> due] :
        {sq[i] : i \in 1..Cardinality(due)} = due}

\* sorted(due_topics, key = next_review): every order of the set that is
\* ascending in the key; the order of equal keys is that of the set's
\* iteration, which the program does not control
RECURSIVE SortedByNextReview(_)
SortedByNextReview(due) ==
    IF due = {} THEN {<<>>}
    ELSE UNION {{<<t>> \o sq : sq \in SortedByNextReview(due \ {t})} :
                  t \in {u \in due : \A w \in due :
                             IsoLeq(data.topics[u].next_review,
                                    data.topics[w].next_review)}}

\* ------------------------------------------------------------- data file
NoFile == [exists |-> FALSE, content |-> <<>>]
PartialFile == [exists |-> TRUE, content |-> <<>>]
\* json.dump(data, f): self.homework is the "homework" entry of self.data
FileOf(d, h) == [exists |-> TRUE, content |-> <<[data |-> d, homework |-> h]>>]
\* the outcomes of the I/O calls of one save_data: all succeed, or the named
\* call raises an OSError
IOOutcomes == {"ok", "rename_fails", "open_fails", "write_fails", "remove_fails"}

\* a save_data whose handler does not put the backup back
SaveData_NoRestore(file, d, h, outcome) ==
    IF outcome = "rename_fails" /\ file.exists THEN file
    ELSE IF outcome = "open_fails" THEN NoFile
    ELSE IF outcome = "write_fails" THEN PartialFile
    ELSE FileOf(d, h)

\* DataManager.save_data: the data file after the call.  The .bak file is
\* created and removed, or renamed back, within the call; the rename in the
\* except handler is taken to succeed.
SaveData(file, d, h, outcome) ==
    LET \* os.rename(DATA_FILE, backup_file) when the data file exists
        renamed == file.exists /\ outcome # "rename_fails"
        backup == IF renamed THEN file ELSE NoFile
        \* the handler: os.rename(backup_file, DATA_FILE) when the backup exists
        Restored(current) == IF backup.exists THEN backup ELSE current
    IN  IF file.exists /\ outcome = "rename_fails" THEN Restored(file)
        ELSE IF outcome = "open_fails" THEN Restored(NoFile)
        ELSE IF outcome = "write_fails" THEN Restored(PartialFile)
        ELSE IF backup.exists /\ outcome = "remove_fails" THEN Restored(FileOf(d, h))
        ELSE FileOf(d, h)

\* DataManager.load_data: the document of the file, or the default data when
\* the file is missing or is not a JSON document
LoadData(file) ==
    IF file.exists /\ file.content # <<>> THEN file.content[1]
    ELSE [data |-> CreateDefaultData, homework |-> <<>>]

\* a handler that calls save_data once, twice (update_streak saves, then the
\* handler saves again), or not at all
SavedOnce(d, h) ==
    /\ data_file' = SaveData(data_file, d, h, io)
    /\ io' = io
SavedTwice(d, h) ==
    /\ data_file' = SaveData(SaveData(data_file, d, h, io), d, h, io)
    /\ io' = io
NotSaved == UNCHANGED <<data_file, io>>

\* ---------------------------------------------------------------- actions
\* a record of the review that leaves review_dates as it was
RecordReview_NoDate(topic_data, level10) ==
    [topic_data EXCEPT !.level10 = level10,
                       !.reviews = @ + 1]

\* review_topic: the level, the reviews count and the review_dates entry it
\* writes to the topic
RecordReview(topic_data, level10) ==
    [topic_data EXCEPT !.level10 = level10,
                       !.reviews = @ + 1,
                       !.review_dates = Append(@, DateTimeIso(now.day, now.tod))]

\* add_topic: an empty subject is refused; a new name is stored and indexed,
\* an existing one is refused
AddTopic(names, topic, subject) ==
    /\ topic \in names
    /\ out' = NoOut
    /\ IF subject # "" /\ topic \notin DOMAIN data.topics
       THEN /\ data' = [data EXCEPT !.topics = (topic :> NewTopic(subject)) @@ @]
            /\ subjects' = [subjects EXCEPT ![subject] = @ \cup {topic}]
            /\ SavedOnce(data', homework)
       ELSE UNCHANGED <<data, subjects, data_file, io>>
    /\ UNCHANGED <<homework, now>>

\* a refusal that still counts the call as a review
ReviewUnknownTopic_Counted(names, topic) ==
    /\ topic \in names
    /\ topic \notin DOMAIN data.topics
    /\ out' = [NoOut EXCEPT !.op = "topic_not_found", !.topic = topic]
    /\ data' = [data EXCEPT !.total_reviews = @ + 1]
    /\ UNCHANGED <<subjects, homework, now, data_file, io>>

\* review_topic on a name that is not in the store: the call logs
\* "Topic not found" and returns
ReviewUnknownTopic(names, topic) ==
    /\ topic \in names
    /\ topic \notin DOMAIN data.topics
    /\ out' = [NoOut EXCEPT !.op = "topic_not_found", !.topic = topic]
    /\ UNCHANGED <<data, subjects, homework, now, data_file, io>>

\* review_topic on a stored topic, with the two validated ratings
ReviewTopic(topic, difficulty, confidence) ==
    /\ topic \in DOMAIN data.topics
    /\ LET topic_data == data.topics[topic]
           days_since_last_review ==
               TimedeltaDays(NowTicks - FromIso(topic_data.next_review))
           level10 == topic_data.level10 + LevelDelta10(difficulty, confidence)
           reviews == topic_data.reviews + 1
       IN  \E next_interval \in NextIntervalOutcomes(
                  level10, difficulty, confidence, days_since_last_review, reviews) :
             LET spaced_interval ==
                     ApplySpacedRepetitionCurve(next_interval, reviews)
                 new_data ==
                     [RecordReview(topic_data, level10) EXCEPT
                        !.next_review =
                            DateTimeIso(now.day + spaced_interval, now.tod),
                        !.difficulty =
                            UpdateTopicDifficulty(topic_data.difficulty, difficulty,
                                                  topic_data.reviews)]
             IN  /\ data' = [data EXCEPT
                               !.topics[topic] = new_data,
                               !.total_reviews = @ + 1,
                               !.streak = UpdateStreak(@, FALSE)]
                 /\ out' = [NoOut EXCEPT
                              !.op = "review_topic", !.topic = topic,
                              !.difficulty = difficulty,
                              !.confidence = confidence,
                              !.days_since_last_review = days_since_last_review,
                              !.early_review_bonus7 =
                                  7 + EarlyReviewFactor7(days_since_last_review)]
                 /\ SavedTwice(data', homework)
    /\ UNCHANGED <<subjects, homework, now>>

\* sorted_topics[:MAX_TOPICS_PER_DAY]
TopicsForToday(sorted_topics) ==
    SubSeq(sorted_topics, 1, MAX_TOPICS_PER_DAY)

\* a slice that starts one place late
TopicsForTomorrow_SkipOne(sorted_topics) ==
    {sorted_topics[i] : i \in (MAX_TOPICS_PER_DAY + 2)..Len(sorted_topics)}

\* a slice that takes the whole list
TopicsForTomorrow_All(sorted_topics) ==
    {sorted_topics[i] : i \in 1..Len(sorted_topics)}

\* sorted_topics[MAX_TOPICS_PER_DAY:]
TopicsForTomorrow(sorted_topics) ==
    {sorted_topics[i] : i \in (MAX_TOPICS_PER_DAY + 1)..Len(sorted_topics)}

\* get_topics_to_review
GetTopicsToReview(subject) ==
    \E sorted_topics \in SortedByNextReview(DueTopics(subject)) :
        /\ IF Len(sorted_topics) > MAX_TOPICS_PER_DAY
           THEN /\ data' = [data EXCEPT !.topics =
                        [t \in DOMAIN @ |->
                            IF t \in TopicsForTomorrow(sorted_topics)
                            THEN [@[t] EXCEPT !.next_review = Tomorrow]
                            ELSE @[t]]]
                /\ out' = [NoOut EXCEPT
                             !.op = "get_topics_to_review",
                             !.subject = subject,
                             !.ret = TopicsForToday(sorted_topics),
                             !.rescheduled =
                                 Cardinality(TopicsForTomorrow(sorted_topics))]
                /\ SavedOnce(data', homework)
           ELSE /\ data' = data
                /\ out' = [NoOut EXCEPT !.op = "get_topics_to_review",
                                        !.subject = subject,
                                        !.ret = sorted_topics]
                /\ NotSaved
        /\ UNCHANGED <<subjects, homework, now>>

\* add_homework: the new id is len(homework) + 1
AddHomework ==
    /\ Len(homework) < MaxHomework
    /\ homework' = Append(homework, [completed |-> FALSE, completion_date |-> None])
    /\ out' = NoOut
    /\ SavedOnce(data, homework')
    /\ UNCHANGED <<data, subjects, now>>

\* complete_homework
CompleteHomework(homework_id) ==
    /\ out' = NoOut
    /\ IF homework_id \in DOMAIN homework /\ ~homework[homework_id].completed
       THEN /\ homework' = [homework EXCEPT ![homework_id] =
                              [completed |-> TRUE, completion_date |-> Today]]
            /\ data' = [data EXCEPT
                          !.total_homework_completed = @ + 1,
                          !.streak = UpdateStreak(@, TRUE)]
            /\ SavedTwice(data', homework')
       ELSE UNCHANGED <<data, homework, data_file, io>>
    /\ UNCHANGED <<subjects, now>>

\* time passes between two calls: the clock is read at the first and at the
\* last tick of each day
Tick(maxDay) ==
    /\ now.day < maxDay \/ now.tod < LastTick
    /\ now' = IF now.tod < LastTick
              THEN [now EXCEPT !.tod = LastTick]
              ELSE [day |-> now.day + 1, tod |-> 0]
    /\ out' = NoOut
    /\ UNCHANGED <<data, subjects, homework, data_file, io>>

\* the file system starts to answer the I/O calls of save_data differently
SetIO(outcome) ==
    /\ outcome \in IOOutcomes
    /\ io # outcome
    /\ io' = outcome
    /\ out' = NoOut
    /\ UNCHANGED <<data, subjects, homework, now, data_file>>

\* the program is started again: __init__ loads the data file and rebuilds
\* the subject index (the sessions that restart hold no homework, whose ids
\* json turns into strings)
Restart ==
    /\ data' = LoadData(data_file).data
    /\ homework' = LoadData(data_file).homework
    /\ subjects' = [s \in SubjectNames |->
                      {t \in DOMAIN data'.topics : data'.topics[t].subject = s}]
    /\ out' = [NoOut EXCEPT !.op = "load_data"]
    /\ UNCHANGED <<now, data_file, io>>

\* ------------------------------------------------------- specification
\* datetime.now() never repeats: two reviews of one topic carry distinct
\* timestamps
NotReviewedNow(topic) ==
    IF topic \notin DOMAIN data.topics THEN TRUE
    ELSE IF data.topics[topic].review_dates = <<>> THEN TRUE
    ELSE data.topics[topic].review_dates[Len(data.topics[topic].review_dates)]
             # DateTimeIso(now.day, now.tod)

\* SpacedRepetitionSystem.__init__ with no data file
Init ==
    /\ data = CreateDefaultData
    /\ subjects = [s \in SubjectNames |-> {}]
    /\ homework = <<>>
    /\ now = [day |-> 0, tod |-> 0]
    /\ out = NoOut
    /\ data_file = NoFile
    /\ io = "ok"

Next ==
    \/ \E t \in TopicNames, s \in SubjectNames \cup {""} :
          AddTopic(TopicNames, t, s)
    \/ \E t \in TopicNames : ReviewUnknownTopic(TopicNames, t)
    \/ \E t \in TopicNames, r \in RatingPairs :
          /\ data.total_reviews < MaxTotalReviews
          /\ NotReviewedNow(t)
          /\ ReviewTopic(t, r[1], r[2])
    \/ GetTopicsToReview(NoSubject)
    \/ AddHomework
    \/ \E h \in 1..MaxHomework : CompleteHomework(h)
    \/ Tick(MaxDay)

Spec == Init /\ [][Next]_vars

\* ---------------------------------------- a session on a saved data file
\* The store load_data returns after topic "t1" was added and then reviewed
\* n times, every HistoryGap days (so each review came at least a week after
\* its due date) at the last tick of the day, always with difficulty rating d
\* and with confidence ratings that sum to csum, the last of them being
\* csum \div n.  The last review took place on day 0.
HistoryRatings == {1, 3, 5}

RECURSIVE DifficultyAfter(_, _)
DifficultyAfter(n, d) ==
    IF n = 0 THEN 3 ELSE UpdateTopicDifficulty(DifficultyAfter(n - 1, d), d, n - 1)

SavedTopics(n, d, csum) ==
    IF n = 0
    THEN {[level10 |-> 0, next_review |-> DateIso(0), difficulty |-> 3,
           reviews |-> 0, subject |-> "Literature", review_dates |-> <<>>]}
    ELSE LET level10 == n * (6 - d) + csum
         IN  {[level10 |-> level10,
               next_review |->
                   DateTimeIso(ApplySpacedRepetitionCurve(x, n), LastTick),
               difficulty |-> DifficultyAfter(n, d),
               reviews |-> n,
               subject |-> "Literature",
               review_dates |->
                   [i \in 1..n |->
                       DateTimeIso(0 - HistoryGap * (n - i), LastTick)]] :
              x \in NextIntervalOutcomes(level10, d, csum \div n, HistoryGap, n)}

InitSaved ==
    /\ \E n \in 0..(MaxReviews - 1), d \in HistoryRatings :
         \E csum \in n..(5 * n) :
           \E topic_data \in SavedTopics(n, d, csum) :
             data = [topics |-> ("t1" :> topic_data),
                     total_reviews |-> n,
                     streak |-> [current |-> IF n = 0 THEN 0 ELSE 1,
                                 longest |-> IF n = 0 THEN 0 ELSE 1,
                                 last_review |-> IF n = 0 THEN None ELSE DateIso(0),
                                 last_homework |-> None],
                     total_homework_completed |-> 0]
    /\ subjects = [s \in SubjectNames |-> IF s = "Literature" THEN {"t1"} ELSE {}]
    /\ homework = <<[completed |-> FALSE, completion_date |-> None]>>
    /\ \E day \in 0..MaxElapsed, tod \in {0, LastTick} :
         now = [day |-> day, tod |-> tod]
    /\ data.total_reviews > 0 => NowTicks > LastTick
    /\ out = NoOut
    /\ data_file = FileOf(data, homework)
    /\ io = "ok"

NextSaved ==
    \/ \E s \in SubjectNames : AddTopic({"t1"}, "t1", s)
    \/ \E d \in Ratings, c \in Ratings :
          /\ NotReviewedNow("t1")
          /\ ReviewTopic("t1", d, c)
    \/ GetTopicsToReview(NoSubject)
    \/ CompleteHomework(1)

SpecSaved == InitSaved /\ [][NextSaved]_vars

\* ------------------------------------------- a session with many topics
\* The store after the start-up topics were added on day 0
\* (initialize_topics), with a further topic that can be added later.
InitDue ==
    /\ data = [CreateDefaultData EXCEPT !.topics =
                  [t \in StartTopics |->
                      [level10 |-> 0, next_review |-> DateIso(0), difficulty |-> 3,
                       reviews |-> 0, subject |-> SubjectOf(t),
                       review_dates |-> <<>>]]]
    /\ subjects = [s \in SubjectNames |-> {t \in StartTopics : SubjectOf(t) = s}]
    /\ homework = <<>>
    /\ now = [day |-> 0, tod |-> 0]
    /\ out = NoOut
    /\ data_file = FileOf(data, homework)
    /\ io = "ok"

NextDue ==
    \/ \E t \in DueTopicNames : AddTopic(DueTopicNames, t, SubjectOf(t))
    \/ \E t \in DueTopicNames : ReviewUnknownTopic(DueTopicNames, t)
    \/ \E t \in DueTopicNames, r \in DueRatingPairs :
          /\ data.total_reviews < MaxDueReviews
          /\ NotReviewedNow(t)
          /\ ReviewTopic(t, r[1], r[2])
    \/ \E s \in DueFilters : GetTopicsToReview(s)
    \/ Tick(MaxDueDay)

SpecDue == InitDue /\ [][NextDue]_vars

\* --------------------------------------- a session of reviews and homework
\* The store after one topic and MaxStreakHomework assignments were added on
\* day 0; the topic is then reviewed and the assignments are completed on
\* whatever days.
InitStreak ==
    /\ data = [CreateDefaultData EXCEPT !.topics = ("t1" :> NewTopicOn(0, "Literature"))]
    /\ subjects = [s \in SubjectNames |-> IF s = "Literature" THEN {"t1"} ELSE {}]
    /\ homework = [i \in 1..MaxStreakHomework |->
                      [completed |-> FALSE, completion_date |-> None]]
    /\ now = [day |-> 0, tod |-> 0]
    /\ out = NoOut
    /\ data_file = FileOf(data, homework)
    /\ io = "ok"

NextStreak ==
    \/ /\ data.total_reviews < MaxStreakReviews
       /\ NotReviewedNow("t1")
       /\ ReviewTopic("t1", 3, 3)
    \/ \E h \in 1..MaxStreakHomework : CompleteHomework(h)
    \/ Tick(MaxStreakDay)

SpecStreak == InitStreak /\ [][NextStreak]_vars

\* ------------------------------------------- a session on a failing disk
\* A new store; the topic is added and reviewed while the saves succeed or
\* fail in one of the ways of IOOutcomes, and the program is restarted at
\* any point.
InitDisk ==
    /\ data = CreateDefaultData
    /\ subjects = [s \in SubjectNames |-> {}]
    /\ homework = <<>>
    /\ now = [day |-> 0, tod |-> 0]
    /\ out = NoOut
    /\ data_file = NoFile
    /\ io = "ok"

NextDisk ==
    \/ \E outcome \in IOOutcomes : SetIO(outcome)
    \/ \E t \in TopicNames : AddTopic(TopicNames, t, "Literature")
    \/ \E t \in TopicNames :
          /\ data.total_reviews < MaxDiskReviews
          /\ NotReviewedNow(t)
          /\ ReviewTopic(t, 3, 3)
    \/ Restart
    \/ Tick(MaxDiskDay)

SpecDisk == InitDisk /\ [][NextDisk]_vars

\* ------------------------------------------------ a session in the long run
\* The daily routine on a store that has been in use for long: every day
\* get_topics_to_review() is called once and every topic it returned is
\* reviewed, then the next day begins.  So that a state can come back, the
\* store is kept as its projection on what the selector and the interval
\* computation read (per topic: next_review, level, reviews, subject), the
\* level and the reviews count are saturated, and the days are numbered from
\* today: when a day ends every stored date moves one day back.  review_dates,
\* difficulty, total_reviews and the streak, which review_topic writes and
\* no scheduling decision reads, are not part of the projection.
\* The longest interval a review can schedule, and the number of days after
\* which a topic reviewed today is due again: its next_review is a datetime
\* string, which the selector takes as due from the day after
LongestInterval == ApplySpacedRepetitionCurve(IntervalSat, ReviewsSat)
RotationDays == LongestInterval + 1
RotationName(j, i) == "x" \o ToString(j) \o "_" \o ToString(i)
RotationTopics ==
    {RotationName(j, i) : j \in 0..(RotationDays - 1), i \in 1..MAX_TOPICS_PER_DAY}
BacklogTopics == RotationTopics \cup {"t1"}
\* the day on which a topic of the rotation was added
RotationDayOf(t) ==
    CHOOSE j \in 0..(RotationDays - 1) :
        \E i \in 1..MAX_TOPICS_PER_DAY : t = RotationName(j, i)

\* On each of the RotationDays days before today MAX_TOPICS_PER_DAY topics
\* were added and each was reviewed ten times that day with the ratings
\* (1, 5): its level is 10.0, its reviews count 10 and its next_review
\* LongestInterval days after that day.  Today topic "t1" was added.
InitBacklog ==
    /\ data = [topics |->
                  [t \in BacklogTopics |->
                      IF t = "t1"
                      THEN [level10 |-> 0, next_review |-> DateIso(0),
                            reviews |-> 0, subject |-> "Literature"]
                      ELSE [level10 |-> LevelSat,
                            next_review |->
                                DateTimeIso(RotationDayOf(t) - RotationDays
                                                + LongestInterval, 0),
                            reviews |-> ReviewsSat,
                            subject |-> "Literature"]]]
    /\ subjects = [s \in SubjectNames |->
                      IF s = "Literature" THEN BacklogTopics ELSE {}]
    /\ homework = <<>>
    /\ now = [day |-> 0, tod |-> 0]
    /\ out = NoOut
    /\ data_file = FileOf(data, homework)
    /\ io = "ok"

\* review_topic on the projected store
ReviewTopicLongRun(topic, difficulty, confidence) ==
    /\ topic \in DOMAIN data.topics
    /\ LET topic_data == data.topics[topic]
           days_since_last_review ==
               TimedeltaDays(NowTicks - FromIso(topic_data.next_review))
           level10 ==
               Min(LevelSat, topic_data.level10 + LevelDelta10(difficulty, confidence))
           reviews == Min(ReviewsSat, topic_data.reviews + 1)
       IN  \E next_interval \in NextIntervalOutcomes(
                  level10, difficulty, confidence, days_since_last_review, reviews) :
             LET spaced_interval ==
                     ApplySpacedRepetitionCurve(next_interval, reviews)
             IN  /\ data' = [data EXCEPT !.topics[topic] =
                               [topic_data EXCEPT
                                  !.level10 = level10,
                                  !.reviews = reviews,
                                  !.next_review =
                                      DateTimeIso(now.day + spaced_interval, now.tod)]]
                 /\ out' = [NoOut EXCEPT
                              !.op = "review_topic", !.topic = topic,
                              !.difficulty = difficulty,
                              !.confidence = confidence,
                              !.days_since_last_review = days_since_last_review,
                              !.early_review_bonus7 =
                                  7 + EarlyReviewFactor7(days_since_last_review)]
                 /\ SavedTwice(data', homework)
    /\ UNCHANGED <<subjects, homework, now>>

\* get_topics_to_review() has been called today
SelectorCalled == out.op \in {"get_topics_to_review", "review_topic"}

\* the day ends once every topic the selector returned has been reviewed (a
\* returned topic stays due until its review); the data file is the same
\* document, with its dates numbered from the new day
NextDay ==
    /\ SelectorCalled
    /\ DueTopics(NoSubject) = {}
    /\ data' = [data EXCEPT !.topics =
                  [t \in DOMAIN @ |->
                      [@[t] EXCEPT !.next_review = <<@[1] - 1, @[2]>>]]]
    /\ out' = NoOut
    /\ data_file' = FileOf(data', homework)
    /\ UNCHANGED <<subjects, homework, now, io>>

NextBacklog ==
    \/ /\ ~SelectorCalled
       /\ GetTopicsToReview(NoSubject)
    \/ /\ SelectorCalled
       /\ \E t \in DueTopics(NoSubject), r \in RatingPairs :
             ReviewTopicLongRun(t, r[1], r[2])
    \/ NextDay

\* the routine is kept up: the next call of the day is always made
SpecBacklog == InitBacklog /\ [][NextBacklog]_vars /\ WF_vars(NextBacklog)

\* ----------------------------------------------------------------- claims
Range(sq) == {sq[i] : i \in DOMAIN sq}
LastReviewDate(t) == data.topics[t].review_dates[Len(data.topics[t].review_dates)]
\* the step is a review_topic call on a stored topic
ReviewStep == out'.op = "review_topic" /\ vars' # vars
\* the step is a get_topics_to_review call
GetStep == out'.op = "get_topics_to_review" /\ vars' # vars
\* the last call was a review of topic t, and no time has passed since
ReviewedNow(t) ==
    /\ out.op = "review_topic"
    /\ out.topic = t
    /\ LastReviewDate(t) = DateTimeIso(now.day, now.tod)

\* C1: a review with any ratings in 1..5 leaves the topic's level strictly
\* greater than before, and no step of any operation lowers or removes the
\* level of a stored topic.
C1_LevelOnlyIncreases ==
    [][/\ \A t \in DOMAIN data.topics :
            /\ t \in DOMAIN data'.topics
            /\ data'.topics[t].level10 >= data.topics[t].level10
       /\ ReviewStep =>
            data'.topics[out'.topic].level10 > data.topics[out'.topic].level10]_vars

C1_Witness ==
    /\ ReviewedNow("t1")
    /\ out.difficulty = 5 /\ out.confidence = 1
    /\ data.topics["t1"].level10 > 0
    /\ homework[1].completed

\* C2: a review of a stored topic adds exactly 1 to the topic's reviews and to
\* total_reviews, appends exactly one entry to its review_dates, and leaves
\* the reviews count of every other topic as it was.
C2_ReviewCountsOnce ==
    [][ReviewStep =>
          LET t == out'.topic
          IN  /\ data'.topics[t].reviews = data.topics[t].reviews + 1
              /\ data'.total_reviews = data.total_reviews + 1
              /\ Len(data'.topics[t].review_dates)
                     = Len(data.topics[t].review_dates) + 1
              /\ SubSeq(data'.topics[t].review_dates, 1,
                        Len(data.topics[t].review_dates))
                     = data.topics[t].review_dates
              /\ DOMAIN data'.topics = DOMAIN data.topics
              /\ \A u \in DOMAIN data.topics \ {t} :
                    data'.topics[u].reviews = data.topics[u].reviews]_vars

C2_Witness ==
    /\ data.total_reviews = 1
    /\ \E t \in DOMAIN data.topics :
          /\ ReviewedNow(t)
          /\ data.topics[t].reviews = 1
          /\ Len(data.topics[t].review_dates) = 1
          /\ \E u \in DOMAIN data.topics \ {t} : data.topics[u].reviews = 0

\* C3: after a review that brings the topic's reviews count to n, next_review
\* is at most 7 days after the review when n <= 3, at most 14 days when
\* n <= 7 and at most 60 days otherwise.
C3_Cap(n) == IF n <= 3 THEN 7 ELSE IF n <= 7 THEN 14 ELSE 60

C3_TieredCap ==
    [][ReviewStep =>
          FromIso(data'.topics[out'.topic].next_review) - NowTicks
              <= C3_Cap(data'.topics[out'.topic].reviews) * TicksPerDay]_vars

\* the tenth review of a topic, scheduled the full 60 days ahead
C3_Witness ==
    /\ ReviewedNow("t1")
    /\ data.topics["t1"].reviews = 10
    /\ FromIso(data.topics["t1"].next_review) - NowTicks = 60 * TicksPerDay

\* C4 as stated: reviewing a topic with level 0, no reviews and next_review
\* today, rated difficulty 3 and confidence 3, schedules it 2 days ahead.
C4_FreshReview ==
    /\ ReviewStep
    /\ out'.difficulty = 3 /\ out'.confidence = 3
    /\ data.topics[out'.topic].level10 = 0
    /\ data.topics[out'.topic].reviews = 0
    /\ data.topics[out'.topic].next_review = Today

C4_Original ==
    [][C4_FreshReview =>
          data'.topics[out'.topic].next_review[1] = now.day + 2]_vars

\* C4 as amended: that review schedules the topic exactly 3 days after the
\* review (the interval is computed from the level after its increment to
\* 0.6: int(2^0.6 * 1 * 1 * 2) = 3).
C4_FreshReviewThreeDays ==
    [][C4_FreshReview =>
          data'.topics[out'.topic].next_review
              = DateTimeIso(now.day + 3, now.tod)]_vars

C4_Witness ==
    /\ ReviewedNow("t1")
    /\ out.difficulty = 3 /\ out.confidence = 3
    /\ data.topics["t1"].reviews = 1
    /\ data.topics["t1"].level10 = 6
    /\ data.topics["t1"].next_review = DateTimeIso(now.day + 3, now.tod)

\* the topics of a call whose next_review the step changed
Rescheduled == {t \in DOMAIN data.topics :
                   data'.topics[t].next_review # data.topics[t].next_review}
\* the due topics the call of the step found
Due == DueTopics(out'.subject)

\* C5: when a call finds k due topics and k exceeds the daily cap, it returns
\* exactly cap of them and moves next_review to tomorrow for exactly the
\* k - cap due topics it does not return, and for no other topic.
C5_OverflowSplit ==
    [][(GetStep /\ Cardinality(Due) > MAX_TOPICS_PER_DAY) =>
          /\ Len(out'.ret) = MAX_TOPICS_PER_DAY
          /\ Cardinality(Range(out'.ret)) = MAX_TOPICS_PER_DAY
          /\ Range(out'.ret) \subseteq Due
          /\ Rescheduled = Due \ Range(out'.ret)
          /\ Cardinality(Rescheduled) = Cardinality(Due) - MAX_TOPICS_PER_DAY
          /\ \A t \in Rescheduled : data'.topics[t].next_review = Tomorrow]_vars

\* five topics were due: three are returned and two moved to tomorrow
C5_Witness ==
    /\ out.op = "get_topics_to_review"
    /\ Len(out.ret) = 3
    /\ out.rescheduled = 2
    /\ Cardinality({t \in DOMAIN data.topics :
                       data.topics[t].next_review = Tomorrow}) = 2

\* C6: every topic a call returns is in the store, has its next_review date
\* on or before today and, under a subject filter, belongs to that subject;
\* the call never returns more than the daily cap.
C6_ReturnedAreDue ==
    [][GetStep =>
          /\ Len(out'.ret) <= MAX_TOPICS_PER_DAY
          /\ \A t \in Range(out'.ret) :
                /\ t \in DOMAIN data.topics
                /\ data.topics[t].next_review[1] <= now.day
                /\ data'.topics[t].next_review[1] <= now.day
                /\ out'.subject # NoSubject =>
                       data.topics[t].subject = out'.subject]_vars

\* a filtered call returned a topic that was reviewed on an earlier day
C6_Witness ==
    /\ out.op = "get_topics_to_review"
    /\ out.subject = "Grammar"
    /\ \E t \in Range(out.ret) :
          /\ data.topics[t].reviews > 0
          /\ data.topics[t].subject = "Grammar"

\* C7: the returned list is in ascending order of the next_review instants,
\* and no topic moved to tomorrow was scheduled strictly earlier than a
\* returned one.
C7_EarliestFirst ==
    [][GetStep =>
          /\ \A i \in 1..(Len(out'.ret) - 1) :
                FromIso(data.topics[out'.ret[i]].next_review)
                    <= FromIso(data.topics[out'.ret[i + 1]].next_review)
          /\ \A t \in Rescheduled, u \in Range(out'.ret) :
                FromIso(data.topics[t].next_review)
                    >= FromIso(data.topics[u].next_review)]_vars

\* an overflowing call returned topics scheduled at different instants, the
\* last of them by a review
C7_Witness ==
    /\ out.op = "get_topics_to_review"
    /\ out.rescheduled > 0
    /\ Len(out.ret) = MAX_TOPICS_PER_DAY
    /\ data.topics[out.ret[3]].next_review[2] # NoTime
    /\ FromIso(data.topics[out.ret[1]].next_review)
           < FromIso(data.topics[out.ret[3]].next_review)

\* C8: whenever a step stores a next_review (for a new topic, by a review, or
\* by moving an overflowing topic to tomorrow) the date stored is not before
\* the day of the call, and a review never schedules before its own instant.
C8_NeverScheduledInThePast ==
    [][/\ \A t \in DOMAIN data'.topics :
            (t \notin DOMAIN data.topics \/ t \in Rescheduled) =>
                data'.topics[t].next_review[1] >= now.day
       /\ ReviewStep =>
            FromIso(data'.topics[out'.topic].next_review) >= NowTicks]_vars

\* all three writers have acted today: a topic was added, one was moved to
\* tomorrow, one was reviewed and given a 0-day interval
C8_Witness ==
    /\ "t5" \in DOMAIN data.topics
    /\ data.topics["t5"].next_review = Today
    /\ \E t \in DOMAIN data.topics : data.topics[t].next_review = Tomorrow
    /\ \E t \in DOMAIN data.topics :
          /\ ReviewedNow(t)
          /\ data.topics[t].next_review = DateTimeIso(now.day, now.tod)

\* C9: a review made when streak.last_review is yesterday raises
\* streak.current by exactly 1, sets streak.longest to the larger of the new
\* current and the old longest, and sets streak.last_review to today.
C9_StreakExtends ==
    [][(ReviewStep /\ data.streak.last_review = Yesterday) =>
          /\ data'.streak.current = data.streak.current + 1
          /\ data'.streak.longest
                 = Max(data.streak.current + 1, data.streak.longest)
          /\ data'.streak.last_review = Today]_vars

\* two reviews on consecutive days, no homework completed
C9_Witness ==
    /\ out.op = "review_topic"
    /\ data.total_reviews = 2
    /\ data.total_homework_completed = 0
    /\ data.streak.last_review = Today
    /\ data.streak.current = 2
    /\ data.streak.longest = 2

\* C10: streak.longest never decreases, whatever reviews and homework
\* completions take place on whatever days.
C10_LongestNeverDecreases ==
    [][data'.streak.longest >= data.streak.longest]_vars

\* the streak was broken and restarted: current is back to 1 while longest
\* keeps the value it had reached
C10_Witness ==
    /\ data.streak.current = 1
    /\ data.streak.longest >= 2
    /\ data.streak.last_review = Today

\* the step is a complete_homework call that marked an assignment completed
HomeworkStep ==
    data'.total_homework_completed = data.total_homework_completed + 1
\* the days on which a review, a homework completion took place
ReviewDays ==
    UNION {{data.topics[t].review_dates[i][1] :
               i \in DOMAIN data.topics[t].review_dates} : t \in DOMAIN data.topics}
HomeworkDays ==
    {homework[h].completion_date[1] :
        h \in {i \in DOMAIN homework : homework[i].completed}}
\* the rule C11 states for one track, given the track's last event date
\* before and after the step
C11_Track(last, last_after) ==
    /\ last = Today =>
          /\ data'.streak.current = data.streak.current
          /\ data'.streak.longest = data.streak.longest
    /\ last \notin {Yesterday, Today} => data'.streak.current = 1
    /\ last_after = Today

\* C11 as stated: an event on a track leaves current and longest unchanged
\* when the track's last date is today, sets current to 1 when it is neither
\* yesterday nor today, and always sets the track's last date to today.
C11_Original ==
    [][/\ ReviewStep =>
            C11_Track(data.streak.last_review, data'.streak.last_review)
       /\ HomeworkStep =>
            C11_Track(data.streak.last_homework, data'.streak.last_homework)]_vars

\* C11 as amended: a review follows the stated rule on last_review.  A
\* homework completion sets last_homework to today and looks at both tracks:
\* current rises by 1 when last_review or last_homework is yesterday;
\* otherwise current becomes 1 when neither of them is today; otherwise
\* current and longest are unchanged.
C11_TrackRules ==
    [][/\ ReviewStep =>
            C11_Track(data.streak.last_review, data'.streak.last_review)
       /\ HomeworkStep =>
            /\ data'.streak.last_homework = Today
            /\ data'.streak.last_review = data.streak.last_review
            /\ IF \/ data.streak.last_review = Yesterday
                  \/ data.streak.last_homework = Yesterday
               THEN data'.streak.current = data.streak.current + 1
               ELSE IF /\ data.streak.last_review # Today
                       /\ data.streak.last_homework # Today
               THEN data'.streak.current = 1
               ELSE /\ data'.streak.current = data.streak.current
                    /\ data'.streak.longest = data.streak.longest]_vars

\* a review on one day, then two homework completions the next day: both of
\* them extended the streak
C11_Witness ==
    /\ data.streak.last_review = Yesterday
    /\ data.streak.last_homework = Today
    /\ \E h, k \in DOMAIN homework :
          /\ h # k
          /\ homework[h].completion_date = Today
          /\ homework[k].completion_date = Today
    /\ data.streak.current = 3

\* the number of consecutive days in the set that end at its latest day
RunLength(days) ==
    LET last == CHOOSE d \in days : \A e \in days : e <= d
    IN  CHOOSE k \in 1..Cardinality(days) :
            /\ \A i \in 0..(k - 1) : (last - i) \in days
            /\ (last - k) \notin days

\* C12 as stated: current is the number of consecutive days, ending at the
\* latest day of activity, that each saw a review or a homework completion.
C12_Original ==
    (ReviewDays \cup HomeworkDays # {}) =>
        data.streak.current = RunLength(ReviewDays \cup HomeworkDays)

\* C12 as amended: starting from a new store, as long as no homework has been
\* completed, current is the number of consecutive days, ending at the day of
\* the latest review, that each saw a review.
C12_ReviewsOnly ==
    (HomeworkDays = {} /\ ReviewDays # {}) =>
        data.streak.current = RunLength(ReviewDays)

\* reviews on day 0 and, after a day without one, on days 2 and 3
C12_Witness ==
    /\ HomeworkDays = {}
    /\ ReviewDays = {0, 2, 3}
    /\ data.streak.current = 2
    /\ data.streak.longest = 2

\* C13: when last_review and last_homework are both yesterday, a review and a
\* homework completion made that day each add 1 to current, whichever comes
\* first: the first leaves the other track's date at yesterday, and an event
\* whose own track's date is yesterday adds exactly 1.
C13_BothTracksExtend ==
    [][/\ (ReviewStep /\ data.streak.last_review = Yesterday) =>
            /\ data'.streak.current = data.streak.current + 1
            /\ data'.streak.last_homework = data.streak.last_homework
       /\ (HomeworkStep /\ data.streak.last_homework = Yesterday) =>
            /\ data'.streak.current = data.streak.current + 1
            /\ data'.streak.last_review = data.streak.last_review]_vars

\* a review and a homework completion on day 0 and again on day 1: the
\* counter stands at 3 after two days
C13_Witness ==
    /\ now.day = 1
    /\ ReviewDays = {0, 1}
    /\ HomeworkDays = {0, 1}
    /\ data.total_reviews = 2
    /\ data.streak.last_review = Today
    /\ data.streak.last_homework = Today
    /\ data.streak.current = 3

\* C14: a review_topic call on a name that is not in the store changes
\* nothing: the topic records, total_reviews, the streak, the subject index
\* and the homework are the same after the call as before.
C14_UnknownTopicNoMutation ==
    [][out'.op = "topic_not_found" =>
          /\ out'.topic \notin DOMAIN data.topics
          /\ data' = data
          /\ subjects' = subjects
          /\ homework' = homework]_vars

\* the unknown name was tried on a store that holds reviewed topics
C14_Witness ==
    /\ out.op = "topic_not_found"
    /\ out.topic = "t5"
    /\ "t5" \notin DOMAIN data.topics
    /\ data.total_reviews > 0
    /\ data.streak.current = 1

\* C15: in every review the early_review_bonus is at least 1 and at most 2
\* (in sevenths: between 7 and 14).
C15_BonusBetweenOneAndTwo ==
    [][ReviewStep =>
          /\ out'.early_review_bonus7 >= 7
          /\ out'.early_review_bonus7 <= 14]_vars

\* C16: in a review of a topic that was reviewed before, the
\* days_since_last_review the call computes is the number of whole days
\* since the latest entry of the topic's review_dates.
C16_DaysSincePreviousReview ==
    [][(ReviewStep /\ data.topics[out'.topic].review_dates # <<>>) =>
          out'.days_since_last_review
              = TimedeltaDays(NowTicks - FromIso(LastReviewDate(out'.topic)))]_vars

\* the stored topics, within the subject filter of the call if it has one,
\* whose next_review falls on a day up to today
DueByDate(subject) ==
    {t \in DOMAIN data.topics :
        /\ subject # NoSubject => data.topics[t].subject = subject
        /\ data.topics[t].next_review[1] <= now.day}

\* C17: when the topics whose next_review date is on or before today (within
\* the filter) number at most the daily cap, the call returns every one of
\* them; this includes a topic that a review earlier the same day scheduled
\* for the same day.
C17_AllDueReturned ==
    [][(GetStep /\ Cardinality(DueByDate(out'.subject)) <= MAX_TOPICS_PER_DAY) =>
          DueByDate(out'.subject) \subseteq Range(out'.ret)]_vars

\* C18: a get_topics_to_review call leaves every topic's level, difficulty,
\* reviews, subject and review_dates, total_reviews, the streak, the subject
\* index and the homework as they were; with at most cap due topics it
\* changes nothing in the store, and otherwise the only fields it changes are
\* the next_review of due topics it does not return.
C18_SelectorFrame ==
    [][GetStep =>
          /\ DOMAIN data'.topics = DOMAIN data.topics
          /\ \A t \in DOMAIN data.topics :
                [data'.topics[t] EXCEPT !.next_review = data.topics[t].next_review]
                    = data.topics[t]
          /\ [data' EXCEPT !.topics = data.topics] = data
          /\ subjects' = subjects
          /\ homework' = homework
          /\ now' = now
          /\ Cardinality(Due) <= MAX_TOPICS_PER_DAY => data' = data
          /\ Rescheduled \subseteq Due \ Range(out'.ret)]_vars

\* an overflowing call moved a topic that had been reviewed to tomorrow; its
\* level and reviews count are those the review left
C18_Witness ==
    /\ out.op = "get_topics_to_review"
    /\ out.rescheduled > 0
    /\ data.total_reviews = 1
    /\ data.streak.current = 1
    /\ \E t \in DOMAIN data.topics \ Range(out.ret) :
          /\ data.topics[t].reviews = 1
          /\ data.topics[t].level10 > 0
          /\ Len(data.topics[t].review_dates) = 1
          /\ data.topics[t].next_review = Tomorrow

\* the stored difficulty of every topic is 3 while the topic has no reviews
\* and lies within [1, 5]; it is a numerator over 5^reviews
C19_InRange(topics) ==
    \A t \in DOMAIN topics :
        /\ topics[t].reviews = 0 => topics[t].difficulty = 3
        /\ topics[t].difficulty >= Pow(5, topics[t].reviews)
        /\ topics[t].difficulty <= 5 * Pow(5, topics[t].reviews)

\* C19: a topic's difficulty is 3 until its first review and lies within
\* [1, 5] before and after every step that changes a topic; a review with
\* rating r replaces the old value by old + 0.2 * (r - old), which lies
\* between old and r.
C19_DifficultySmoothed ==
    [][/\ data'.topics # data.topics =>
            C19_InRange(data.topics) /\ C19_InRange(data'.topics)
       /\ ReviewStep =>
            LET n == data.topics[out'.topic].reviews
                old == data.topics[out'.topic].difficulty
                new == data'.topics[out'.topic].difficulty
                rating == out'.difficulty * Pow(5, n + 1)
            IN  /\ new = 5 * old + (out'.difficulty * Pow(5, n) - old)
                /\ new >= Min(5 * old, rating)
                /\ new <= Max(5 * old, rating)]_vars

\* after nine reviews rated 5 the tenth is rated 1: the difficulty comes down
\* but is still above 3
C19_Witness ==
    /\ ReviewedNow("t1")
    /\ data.topics["t1"].reviews = 10
    /\ out.difficulty = 1
    /\ data.topics["t1"].difficulty > 3 * Pow(5, 10)
    /\ data.topics["t1"].difficulty < 5 * Pow(5, 10)

\* the step is a handler that changed the store and so called save_data
SaveStep ==
    /\ out'.op # "load_data"
    /\ data' # data \/ homework' # homework

\* C20: when opening or writing the data file fails in a save and a complete
\* document had been saved before, the data file is that document again when
\* the handler returns, and load_data reads the previously saved state from
\* it.
C20_FailedWriteKeepsFile ==
    [][(/\ SaveStep
        /\ io \in {"open_fails", "write_fails"}
        /\ data_file.exists
        /\ data_file.content # <<>>) =>
          /\ data_file' = data_file
          /\ LoadData(data_file') = data_file.content[1]]_vars

\* a review was made while writes fail: the store in memory counts it, the
\* data file still holds the complete document saved before it
C20_Witness ==
    /\ out.op = "review_topic"
    /\ io = "write_fails"
    /\ data.total_reviews = 1
    /\ data_file.exists
    /\ data_file.content # <<>>
    /\ LoadData(data_file).data.total_reviews = 0
    /\ "t1" \in DOMAIN LoadData(data_file).data.topics

\* C21: in every state reached from the default store by reviews and
\* homework completions, streak.longest is at least streak.current.
C21_LongestAtLeastCurrent ==
    data.streak.longest >= data.streak.current

\* C22: within one day, with no topic added or reviewed in between, the
\* distinct topics returned by a sequence of get_topics_to_review calls, with
\* any mix of subject filters, number at most MAX_TOPICS_PER_DAY.  Stated
\* for every two calls that follow one another: out holds the list the
\* earlier call returned, and any other call or a tick in between clears it.
C22_DailyCapAcrossCalls ==
    [][(out.op = "get_topics_to_review" /\ GetStep) =>
          Cardinality(Range(out.ret) \cup Range(out'.ret))
              <= MAX_TOPICS_PER_DAY]_vars

\* the topics the property is stated for, each of them one temporal formula
\* to check: the topic added today and the topics of the rotation that are
\* due today
WatchedTopics == {"t1"} \cup {RotationName(0, i) : i \in 1..MAX_TOPICS_PER_DAY}

\* C23: with a fixed set of topics, when get_topics_to_review() is called
\* every day and every topic it returns is reviewed that day, with any
\* ratings, every topic that is due on some day (its next_review is at most
\* today's date) is eventually returned by the selector.
C23_NoTopicPostponedForever ==
    \A t \in WatchedTopics :
        IsoLeq(data.topics[t].next_review, Today)
            ~> (out.op = "get_topics_to_review" /\ t \in Range(out.ret))
====
